---- MODULE Spec2Model ----
(***************************************************************************)
(* The per-node communication actor of wolfpack (package impl).  Two       *)
(* snapshots of the same file are modelled together:                       *)
(*   src/unnamed/part_000                 the ACK-quorum snapshot          *)
(*   src/logic/impl/node-node-interface.go the lockstep / capture snapshot *)
(* Tasks: the inbound listener (RunListener), the roster actor             *)
(* (ManageOtherNodes), the quorum tracker (ManageAcks) and the gameplay    *)
(* goroutines that call SendMoveToNodes.                                   *)
(***************************************************************************)
EXTENDS Integers, Sequences, FiniteSets, TLC

(***************************************************************************)
(* Bounds of the model.                                                    *)
(***************************************************************************)
\* sequenceNumber is not incremented beyond MaxSeq
MaxSeq == 1
\* no more than MaxAcks acks are delivered for one sequence number
MaxAcks == 2
\* no connect datagram arrives while MaxPendingAdds additions are pending
MaxPendingAdds == 1
\* no move datagram arrives and no commit is sent while MaxPendingSends
\* messages are pending
MaxPendingSends == 1

(***************************************************************************)
(* Program constants.                                                      *)
(***************************************************************************)
REJECTION_MAX == 3
\* capacities of the buffered channels
MessagesToSendCap == 30
NodesToDeleteCap == 5
NodesToAddCap == 10

(***************************************************************************)
(* Value domains.                                                          *)
(***************************************************************************)
\* a nil pointer (*shared.Coord, *shared.MoveCommit)
Nil == [nil |-> TRUE]

\* n.PlayerNode.Identifier of this node
Self == "me"
Prey == "prey"
\* identifiers of the other (non-prey) nodes
PeerIds == {"1", "2"}
\* LocalAddr strings of the other nodes, carried in NodeMessage.Addr
Addrs == {"a1", "a2"}
\* the LocalAddr of each of the other nodes
AddrOf == [id \in PeerIds |-> IF id = "1" THEN "a1" ELSE "a2"]
\* the goroutines of the gameplay logic that call SendMoveToNodes
Submitters == {"g1", "g2"}

\* values of the X and Y components of a shared.Coord
CoordValues == {1, 11}
Coords == [X : CoordValues, Y : CoordValues]
Origin == [X |-> 1, Y |-> 1]

\* the grid of the game settings: the cells that are walls
Walls == {[X |-> 11, Y |-> 11]}

\* public keys in their wire string form
Keys == {"kPrey", "kEve"}

(***************************************************************************)
(* Helpers on functions.                                                   *)
(***************************************************************************)
\* delete(m, k) of a Go map
MapDelete(m, k) == [x \in DOMAIN m \ {k} |-> m[x]]

\* m[k] = v of a Go map
MapPut(m, k, v) == [x \in DOMAIN m \cup {k} |-> IF x = k THEN v ELSE m[x]]

\* the elements of a slice, as a set
Elems(s) == {s[i] : i \in 1..Len(s)}

(***************************************************************************)
(* Commitment hashing and authenticity (MOVE COMMIT HASH FUNCTIONS).       *)
(***************************************************************************)
DigitChars == <<"0", "1", "2", "3", "4", "5", "6", "7", "8", "9">>

\* the decimal text of a natural number, one character per element
RECURSIVE NatText(_)
NatText(n) ==
    IF n < 10 THEN <<DigitChars[n + 1]>>
    ELSE NatText(n \div 10) \o <<DigitChars[(n % 10) + 1]>>

\* strconv.AppendInt(arr, v, 10): the decimal text of v appended, no separator
AppendInt(arr, v) == arr \o (IF v < 0 THEN <<"-">> \o NatText(0 - v) ELSE NatText(v))

\* strconv.AppendQuote(arr, id): the identifier between double quotes
\* (the identifiers of the model hold no character that needs escaping)
AppendQuote(arr, id) == arr \o <<"\"", id, "\"">>

\* make([]byte, 2048): the scratch buffer starts as 2048 zero bytes, and the
\* text is appended after them
ScratchBuffer == <<"2048 zero bytes">>

\* md5 of a byte string, taken as collision free: the digest names its input
Md5Sum(bytes) == <<"md5", bytes>>

\* hex.EncodeToString
HexEncode(digest) == <<"hex", digest>>

CalculateHash(m, id) ==
    Md5Sum(AppendQuote(AppendInt(AppendInt(ScratchBuffer, m.X), m.Y), id))

\* ecdsa.Sign with the private key of the pair whose public key is k
SignMoveCommit(k, hash) == [r |-> <<"r", k, hash>>, s |-> <<"s", k, hash>>]

\* the wire string form of a signature component
BigText(v) == <<"dec", v>>
\* a wire string that is not a number
Garbage == <<"garbage">>
\* new(big.Int) is zero
BigZero == <<"zero">>

\* fmt.Sscan(text, bigInt): the number, or the big.Int left at zero
Sscan(text) == IF Len(text) = 2 /\ text[1] = "dec" THEN text[2] ELSE BigZero

\* ecdsa.Verify(publicKey, hash, r, s); a zero component never verifies
EcdsaVerify(pub, hash, r, s) ==
    /\ r # BigZero
    /\ s # BigZero
    /\ r = SignMoveCommit(pub, hash).r
    /\ s = SignMoveCommit(pub, hash).s

CheckAuthenticityOfMoveCommit(m) ==
    EcdsaVerify(m.PubKey, m.MoveHash, Sscan(m.R), Sscan(m.S))

\* a move commit as its author builds it: hash signed with the author's key
MoveCommitOf(k, hash) ==
    [MoveHash |-> hash,
     R |-> BigText(SignMoveCommit(k, hash).r),
     S |-> BigText(SignMoveCommit(k, hash).s),
     PubKey |-> k]

Hashes == {CalculateHash(c, Prey) : c \in Coords}

\* the move commits that arrive: authentic ones from either key, and forged
\* ones (claimed key swapped, signature over another hash, malformed R or S)
AuthenticCommits == {MoveCommitOf(k, h) : k \in Keys, h \in Hashes}
ForgedCommits ==
    UNION {{[MoveCommitOf("kEve", h) EXCEPT !.PubKey = "kPrey"],
            [MoveCommitOf("kPrey", h) EXCEPT !.MoveHash = CalculateHash(Origin, "1")],
            [MoveCommitOf("kPrey", h) EXCEPT !.R = Garbage],
            [MoveCommitOf("kPrey", h) EXCEPT !.S = Garbage]} : h \in Hashes}
CommitInputs == AuthenticCommits \cup ForgedCommits

(***************************************************************************)
(* The grid oracle (package geometry).                                     *)
(***************************************************************************)
IsValidMove(move) == move \notin Walls

\* CheckMoveIsValid: nil, or the error
CheckMoveIsValid(move) == IF IsValidMove(move) THEN "nil" ELSE "InvalidMoveError"

\* CheckMoveCommitAgainstMove: a commit stored under identifier whose hex text
\* equals that of the hash of (move, identifier)
CheckMoveCommitAgainstMove(mc, identifier, move) ==
    \E i \in DOMAIN mc :
        mc[i] = HexEncode(CalculateHash(move, identifier)) /\ i = identifier

(***************************************************************************)
(* State.                                                                  *)
(***************************************************************************)
VARIABLES
    OtherNodes,      \* the roster: identifier -> connection (its remote address)
    MessagesToSend,  \* buffered channel of PendingMessage
    NodesToDelete,   \* buffered channel of identifiers
    NodesToAdd,      \* buffered channel of OtherNode
    ACKSReceived,    \* the ack ledger: sequence number -> slice of addresses
    sequenceNumber,  \* the package-level counter
    MoveCommits,     \* identifier -> hex text of the committed hash
    PlayerLocs,      \* GameState.PlayerLocs: identifier -> coordinate
    listener,        \* RunListener: position, loop counter, last message, its result
    tracker,         \* ManageAcks: position and locals
    sender,          \* SendMoveToNodes calls: per goroutine, position and locals
    roster,          \* ManageOtherNodes: position, toSend, and the writes made for it
    PlayerScores,    \* GameState.PlayerScores: identifier -> score
    mesh,            \* GetNodes: position, the response still to walk, the node in hand
    heart,           \* SendHeartbeat and Reregister: position and locals
    ServerConn,      \* the RPC connection to the directory server
    Config,          \* the session configuration handed out at registration
    HeartAttack,     \* unbuffered channel: whether a stop signal is offered or taken
    server,          \* the directory server, as the node's calls observe it
    writing          \* the tasks that are inside a write to the game state

vars == <<OtherNodes, MessagesToSend, NodesToDelete, NodesToAdd, ACKSReceived,
          sequenceNumber, MoveCommits, PlayerLocs, listener, tracker, sender,
          roster, PlayerScores, mesh, heart, ServerConn, Config, HeartAttack,
          server, writing>>

AllIds == {Self, Prey} \cup PeerIds

NoMessage == [MessageType |-> "none", Identifier |-> "", Move |-> Nil,
              Seq |-> 0, MoveCommit |-> Nil, Addr |-> "", GameState |-> Nil,
              Score |-> 0]
NoMove == [Seq |-> 0, Coord |-> Nil, Rejected |-> 0]
NoPendingMessage == [Recipient |-> "", Message |-> NoMessage]
\* shared.GameConfig{}: what DialAndRegister hands back beside an error
ZeroConfig == [Identifier |-> 0, GlobalServerHB |-> 0]

Init ==
    /\ OtherNodes = <<>>
    /\ MessagesToSend = <<>>
    /\ NodesToDelete = <<>>
    /\ NodesToAdd = <<>>
    /\ ACKSReceived = <<>>
    /\ sequenceNumber = 0
    /\ MoveCommits = <<>>
    /\ PlayerLocs = [i \in AllIds |-> Origin]
    /\ listener = [pc |-> "read", i |-> 0, msg |-> NoMessage, err |-> "nil"]
    /\ tracker = [pc |-> "select", moveToSend |-> NoMove, values |-> <<>>,
                  addresses |-> {}, visited |-> {}]
    /\ sender = [g \in Submitters |->
                    [pc |-> "idle", move |-> Nil, message |-> NoMessage,
                     pending |-> NoMove]]
    /\ roster = [pc |-> "select", toSend |-> NoPendingMessage, written |-> <<>>]
    /\ PlayerScores = [i \in AllIds |-> 0]
    /\ mesh = [pc |-> "idle", response |-> {}, node |-> ""]
    /\ heart = [pc |-> "idle", err |-> "nil", response |-> ZeroConfig,
                inLoop |-> FALSE]
    /\ ServerConn = Nil
    /\ Config = ZeroConfig
    /\ HeartAttack = "open"
    /\ server = [up |-> TRUE]
    /\ writing = {}

\* an unrecovered panic in the listener goroutine ends the process, and so do
\* the os.Exit of ServerRegister and the panic of GetNodes
Running == listener.pc # "crashed" /\ mesh.pc \notin {"exited", "panicked"}

(***************************************************************************)
(* The inbound listener: one datagram read and dispatched per step.        *)
(***************************************************************************)
\* the listener's record after the handler of message m returned err; a
\* handler that panicked leaves the loop for good
Dispatched(m, err) ==
    [pc |-> IF err = "panic" THEN "crashed" ELSE "read",
     i |-> (listener.i + 1) % 2, msg |-> m, err |-> err]

MoveCommitMessage(id, commit) ==
    [NoMessage EXCEPT !.MessageType = "moveCommit", !.Identifier = id,
                      !.MoveCommit = commit]
MoveMessage(id, move, seq, addr) ==
    [NoMessage EXCEPT !.MessageType = "move", !.Identifier = id, !.Move = move,
                      !.Seq = seq, !.Addr = addr]

\* the store without the ok check: the last commit wins
StoreMoveCommitOverwriting(mc, identifier, moveCommit) ==
    IF CheckAuthenticityOfMoveCommit(moveCommit)
    THEN MapPut(mc, identifier, HexEncode(moveCommit.MoveHash))
    ELSE mc

\* the store without the authenticity check
StoreMoveCommitUnverified(mc, identifier, moveCommit) ==
    IF identifier \notin DOMAIN mc
    THEN MapPut(mc, identifier, HexEncode(moveCommit.MoveHash))
    ELSE mc

\* HandleReceivedMoveCommit: the commit store afterwards
StoreMoveCommit(mc, identifier, moveCommit) ==
    IF CheckAuthenticityOfMoveCommit(moveCommit)
    THEN IF identifier \notin DOMAIN mc
         THEN MapPut(mc, identifier, HexEncode(moveCommit.MoveHash))
         ELSE mc
    ELSE mc

\* HandleReceivedMoveCommit: the error returned (a nil commit is dereferenced)
MoveCommitError(identifier, moveCommit) ==
    IF moveCommit = Nil THEN "panic"
    ELSE IF CheckAuthenticityOfMoveCommit(moveCommit) THEN "nil"
    ELSE "IncorrectPlayerError"

HandleReceivedMoveCommit(m) ==
    /\ Running /\ listener.pc = "read"
    /\ m.MessageType = "moveCommit"
    /\ MoveCommits' = IF m.MoveCommit = Nil THEN MoveCommits
                      ELSE StoreMoveCommit(MoveCommits, m.Identifier, m.MoveCommit)
    /\ listener' = Dispatched(m, MoveCommitError(m.Identifier, m.MoveCommit))
    /\ UNCHANGED <<mesh, heart, ServerConn, Config, HeartAttack, server, writing,
                   roster, PlayerScores,
                   OtherNodes, MessagesToSend, NodesToDelete, NodesToAdd,
                   ACKSReceived, sequenceNumber, PlayerLocs, tracker, sender>>

\* HandleReceivedMoveL: the error returned; the error text of the last line
\* dereferences move, so a nil move panics there
MoveLError(mc, identifier, move) ==
    IF move = Nil THEN "panic"
    ELSE IF CheckMoveCommitAgainstMove(mc, identifier, move)
         THEN CheckMoveIsValid(move)
         ELSE "InvalidMoveError"

\* the location written under the wrong key
MoveLLocsWrongKey(locs, mc, identifier, move) ==
    IF move # Nil /\ CheckMoveCommitAgainstMove(mc, identifier, move)
       /\ CheckMoveIsValid(move) = "nil"
    THEN MapPut(locs, Self, move)
    ELSE locs

\* HandleReceivedMoveL: the player locations afterwards
MoveLLocs(locs, mc, identifier, move) ==
    IF move # Nil /\ CheckMoveCommitAgainstMove(mc, identifier, move)
       /\ CheckMoveIsValid(move) = "nil"
    THEN MapPut(locs, identifier, move)
    ELSE locs

\* the delete left out
MoveLCommitsKept(mc, identifier) == mc

\* HandleReceivedMoveL: the deferred delete runs on every way out
MoveLCommits(mc, identifier) == MapDelete(mc, identifier)

HandleReceivedMoveL(m) ==
    /\ Running /\ listener.pc = "read"
    /\ m.MessageType = "move" /\ m.Identifier = Prey
    /\ PlayerLocs' = MoveLLocs(PlayerLocs, MoveCommits, m.Identifier, m.Move)
    /\ MoveCommits' = MoveLCommits(MoveCommits, m.Identifier)
    /\ listener' = Dispatched(m, MoveLError(MoveCommits, m.Identifier, m.Move))
    /\ UNCHANGED <<mesh, heart, ServerConn, Config, HeartAttack, server, writing,
                   roster, PlayerScores,
                   OtherNodes, MessagesToSend, NodesToDelete, NodesToAdd,
                   ACKSReceived, sequenceNumber, tracker, sender>>

\* the datagrams of the lockstep protocol
CommitSenders == {Prey, "1"}
LockstepMessages ==
    {MoveCommitMessage(id, c) : id \in CommitSenders, c \in CommitInputs}
    \cup {MoveMessage(Prey, mv, 0, "") : mv \in Coords \cup {Nil}}

NextLockstep ==
    \/ \E m \in LockstepMessages : HandleReceivedMoveCommit(m)
    \/ \E m \in LockstepMessages : HandleReceivedMoveL(m)

SpecLockstep == Init /\ [][NextLockstep]_vars

(***************************************************************************)
(* The inbound listener, quorum side: acks and connection requests.        *)
(***************************************************************************)
AckMessage(addr, seq) ==
    [NoMessage EXCEPT !.MessageType = "ack", !.Seq = seq, !.Addr = addr]
ConnectMessage(id, addr) ==
    [NoMessage EXCEPT !.MessageType = "connect", !.Identifier = id, !.Addr = addr]

\* HandleReceivedAck: the error returned
AckError(acks, seq) ==
    IF seq \notin DOMAIN acks THEN "UnknownSequenceError" ELSE "nil"

\* the append without the lookup: an absent entry is created
RecordAckUnchecked(acks, addr, seq) ==
    MapPut(acks, seq, Append(IF seq \in DOMAIN acks THEN acks[seq] ELSE <<>>, addr))

\* HandleReceivedAck: the ledger afterwards
RecordAck(acks, addr, seq) ==
    IF seq \notin DOMAIN acks THEN acks
    ELSE [acks EXCEPT ![seq] = Append(acks[seq], addr)]

HandleReceivedAck(m) ==
    /\ Running /\ listener.pc = "read"
    /\ m.MessageType = "ack"
    /\ m.Seq \in DOMAIN ACKSReceived => Len(ACKSReceived[m.Seq]) < MaxAcks
    /\ ACKSReceived' = RecordAck(ACKSReceived, m.Addr, m.Seq)
    /\ listener' = Dispatched(m, AckError(ACKSReceived, m.Seq))
    /\ UNCHANGED <<mesh, heart, ServerConn, Config, HeartAttack, server, writing,
                   roster, PlayerScores,
                   OtherNodes, MessagesToSend, NodesToDelete, NodesToAdd,
                   sequenceNumber, MoveCommits, PlayerLocs, tracker, sender>>

\* HandleIncomingConnectionRequest: the connection is dialled, then the
\* listener sends it on NodesToAdd (and waits there while the channel is full)
HandleIncomingConnectionRequest(m) ==
    /\ Running /\ listener.pc = "read"
    /\ m.MessageType = "connect"
    /\ listener' = [listener EXCEPT !.pc = "addNode", !.i = (listener.i + 1) % 2,
                                    !.msg = m]
    /\ UNCHANGED <<mesh, heart, ServerConn, Config, HeartAttack, server, writing,
                   roster, PlayerScores,
                   OtherNodes, MessagesToSend, NodesToDelete, NodesToAdd,
                   ACKSReceived, sequenceNumber, MoveCommits, PlayerLocs,
                   tracker, sender>>

ListenerAddNode ==
    /\ Running /\ listener.pc = "addNode"
    /\ Len(NodesToAdd) < NodesToAddCap
    /\ NodesToAdd' = Append(NodesToAdd, [Identifier |-> listener.msg.Identifier,
                                         Conn |-> listener.msg.Addr])
    /\ listener' = [listener EXCEPT !.pc = "read", !.err = "nil"]
    /\ UNCHANGED <<mesh, heart, ServerConn, Config, HeartAttack, server, writing,
                   roster, PlayerScores,
                   OtherNodes, MessagesToSend, NodesToDelete, ACKSReceived,
                   sequenceNumber, MoveCommits, PlayerLocs, tracker, sender>>

(***************************************************************************)
(* The roster actor (ManageOtherNodes): one select case at a time; the     *)
(* send case is a loop of writes, one step per write.                      *)
(***************************************************************************)
\* every peer, whoever the recipient is
RecipientsEveryone(nodes, toSend) == DOMAIN nodes

\* the peers a PendingMessage is written to
Recipients(nodes, toSend) ==
    IF toSend.Recipient # "all"
    THEN IF toSend.Recipient \in DOMAIN nodes THEN {toSend.Recipient} ELSE {}
    ELSE DOMAIN nodes

\* the first connection of an identifier kept
AddNodeIfAbsent(nodes, toAdd) ==
    IF toAdd.Identifier \in DOMAIN nodes THEN nodes
    ELSE MapPut(nodes, toAdd.Identifier, toAdd.Conn)

\* n.OtherNodes[toAdd.Identifier] = toAdd.Conn
AddNode(nodes, toAdd) == MapPut(nodes, toAdd.Identifier, toAdd.Conn)

\* the removal dropped
DeleteNodeLost(nodes, toDelete) == nodes

\* delete(n.OtherNodes, toDelete)
DeleteNode(nodes, toDelete) == MapDelete(nodes, toDelete)

\* the results of a Write on a connection
WriteResults == {"nil", "write error"}

\* toSend goes out of scope at the end of its case
AtSelect == [pc |-> "select", toSend |-> NoPendingMessage, written |-> <<>>]

\* case toSend := <-n.MessagesToSend
RosterSend ==
    /\ Running /\ roster.pc = "select"
    /\ MessagesToSend # <<>>
    /\ MessagesToSend' = Tail(MessagesToSend)
    /\ roster' = [pc |-> "write", toSend |-> Head(MessagesToSend), written |-> <<>>]
    /\ UNCHANGED <<mesh, heart, ServerConn, Config, HeartAttack, server, writing,
                   OtherNodes, NodesToDelete, NodesToAdd, ACKSReceived,
                   sequenceNumber, MoveCommits, PlayerLocs, listener, tracker,
                   sender, PlayerScores>>

\* one Write of toSend.Message: on the connection of the named recipient, or
\* on the next connection of the range over OtherNodes; its result is printed
\* or dropped and the actor goes on
RosterWrite(id, err) ==
    /\ Running /\ roster.pc = "write"
    /\ id \in Recipients(OtherNodes, roster.toSend) \ DOMAIN roster.written
    /\ roster' = [roster EXCEPT !.written =
                     MapPut(roster.written, id, [Conn |-> OtherNodes[id], Err |-> err])]
    /\ UNCHANGED <<mesh, heart, ServerConn, Config, HeartAttack, server, writing,
                   OtherNodes, MessagesToSend, NodesToDelete, NodesToAdd,
                   ACKSReceived, sequenceNumber, MoveCommits, PlayerLocs,
                   listener, tracker, sender, PlayerScores>>

\* no connection is left to write to: back to the select
RosterSent ==
    /\ Running /\ roster.pc = "write"
    /\ Recipients(OtherNodes, roster.toSend) \subseteq DOMAIN roster.written
    /\ roster' = AtSelect
    /\ UNCHANGED <<mesh, heart, ServerConn, Config, HeartAttack, server, writing,
                   OtherNodes, MessagesToSend, NodesToDelete, NodesToAdd,
                   ACKSReceived, sequenceNumber, MoveCommits, PlayerLocs,
                   listener, tracker, sender, PlayerScores>>

\* case toAdd := <-n.NodesToAdd
RosterAdd ==
    /\ Running /\ roster.pc = "select"
    /\ NodesToAdd # <<>>
    /\ OtherNodes' = AddNode(OtherNodes, Head(NodesToAdd))
    /\ NodesToAdd' = Tail(NodesToAdd)
    /\ UNCHANGED <<mesh, heart, ServerConn, Config, HeartAttack, server, writing,
                   MessagesToSend, NodesToDelete, ACKSReceived, sequenceNumber,
                   MoveCommits, PlayerLocs, listener, tracker, sender, roster,
                   PlayerScores>>

\* case toDelete := <-n.NodesToDelete
RosterDelete ==
    /\ Running /\ roster.pc = "select"
    /\ NodesToDelete # <<>>
    /\ OtherNodes' = DeleteNode(OtherNodes, Head(NodesToDelete))
    /\ NodesToDelete' = Tail(NodesToDelete)
    /\ UNCHANGED <<mesh, heart, ServerConn, Config, HeartAttack, server, writing,
                   MessagesToSend, NodesToAdd, ACKSReceived, sequenceNumber,
                   MoveCommits, PlayerLocs, listener, tracker, sender, roster,
                   PlayerScores>>

(***************************************************************************)
(* SendMoveToNodes, called by the gameplay goroutines.                     *)
(***************************************************************************)
\* the move the gameplay logic submits: a valid coordinate other than the
\* starting one, so that applying it is visible in PlayerLocs
SubmittedMoves == {[X |-> 11, Y |-> 1]}
SelfAddr == "a0"

Idle == [pc |-> "idle", move |-> Nil, message |-> NoMessage, pending |-> NoMove]

\* if move == nil { return }; sequenceNumber++
SendMoveToNodes(g, move) ==
    /\ Running /\ sender[g].pc = "idle"
    /\ IF move = Nil
       THEN /\ sequenceNumber' = sequenceNumber
            /\ sender' = [sender EXCEPT ![g] = [Idle EXCEPT !.pc = "return"]]
       ELSE /\ sequenceNumber' = sequenceNumber + 1
            /\ sender' = [sender EXCEPT ![g] = [Idle EXCEPT !.pc = "message",
                                                            !.move = move]]
    /\ UNCHANGED <<mesh, heart, ServerConn, Config, HeartAttack, server, writing,
                   roster, PlayerScores,
                   OtherNodes, MessagesToSend, NodesToDelete, NodesToAdd,
                   ACKSReceived, MoveCommits, PlayerLocs, listener, tracker>>

\* the call with a nil move is back at its caller
SendMoveReturns(g) ==
    /\ Running /\ sender[g].pc = "return"
    /\ sender' = [sender EXCEPT ![g] = Idle]
    /\ UNCHANGED <<mesh, heart, ServerConn, Config, HeartAttack, server, writing,
                   roster, PlayerScores, OtherNodes, MessagesToSend,
                   NodesToDelete, NodesToAdd, ACKSReceived, sequenceNumber,
                   MoveCommits, PlayerLocs, listener, tracker>>

\* the NodeMessage literal reads sequenceNumber
SendMoveBuild(g) ==
    /\ Running /\ sender[g].pc = "message"
    /\ sender' = [sender EXCEPT ![g].pc = "enqueue",
                     ![g].message = MoveMessage(Self, sender[g].move,
                                                sequenceNumber, SelfAddr)]
    /\ UNCHANGED <<mesh, heart, ServerConn, Config, HeartAttack, server, writing,
                   roster, PlayerScores,
                   OtherNodes, MessagesToSend, NodesToDelete, NodesToAdd,
                   ACKSReceived, sequenceNumber, MoveCommits, PlayerLocs,
                   listener, tracker>>

\* n.MessagesToSend <- &PendingMessage{Recipient: "all", ...}
SendMoveEnqueue(g) ==
    /\ Running /\ sender[g].pc = "enqueue"
    /\ Len(MessagesToSend) < MessagesToSendCap
    /\ MessagesToSend' = Append(MessagesToSend,
                                [Recipient |-> "all", Message |-> sender[g].message])
    /\ sender' = [sender EXCEPT ![g].pc = "pending"]
    /\ UNCHANGED <<mesh, heart, ServerConn, Config, HeartAttack, server, writing,
                   roster, PlayerScores,
                   OtherNodes, NodesToDelete, NodesToAdd, ACKSReceived,
                   sequenceNumber, MoveCommits, PlayerLocs, listener, tracker>>

\* the ledger entry the design creates on submission
CreateAckEntry(acks, seq) ==
    IF seq \in DOMAIN acks THEN acks ELSE MapPut(acks, seq, <<>>)

\* the PendingMoveUpdates literal reads sequenceNumber again; SendMoveToNodes
\* itself writes nothing to ACKSReceived (register = FALSE)
SendMovePending(g, register) ==
    /\ Running /\ sender[g].pc = "pending"
    /\ sender' = [sender EXCEPT ![g].pc = "sendMove",
                     ![g].pending = [Seq |-> sequenceNumber,
                                     Coord |-> sender[g].move, Rejected |-> 0]]
    /\ ACKSReceived' = IF register THEN CreateAckEntry(ACKSReceived, sequenceNumber)
                       ELSE ACKSReceived
    /\ UNCHANGED <<mesh, heart, ServerConn, Config, HeartAttack, server, writing,
                   roster, PlayerScores,
                   OtherNodes, MessagesToSend, NodesToDelete, NodesToAdd,
                   sequenceNumber, MoveCommits, PlayerLocs, listener, tracker>>

(***************************************************************************)
(* The inbound listener: a move of a player other than the prey is applied *)
(* without a commitment and acknowledged (HandleReceivedMoveNL, SendACK).  *)
(***************************************************************************)
\* HandleReceivedMoveNL: the error returned; the error text of the last line
\* dereferences move, so a nil move panics there
MoveNLError(move) ==
    IF move = Nil THEN "panic" ELSE CheckMoveIsValid(move)

\* HandleReceivedMoveNL: the player locations afterwards
MoveNLLocs(locs, identifier, move) ==
    IF move # Nil /\ CheckMoveIsValid(move) = "nil"
    THEN MapPut(locs, identifier, move)
    ELSE locs

\* the ack addressed to the wrong node
SendACKToAll(identifier, seq) ==
    [Recipient |-> "all",
     Message |-> [NoMessage EXCEPT !.MessageType = "ack", !.Identifier = Self,
                                   !.Seq = seq, !.Addr = SelfAddr]]

\* SendACK: the PendingMessage built for the sender of the move
SendACK(identifier, seq) ==
    [Recipient |-> identifier,
     Message |-> [NoMessage EXCEPT !.MessageType = "ack", !.Identifier = Self,
                                   !.Seq = seq, !.Addr = SelfAddr]]

\* an accepted move leaves the listener at the send of SendACK on
\* MessagesToSend; a refused one returns at once
HandleReceivedMoveNL(m) ==
    /\ Running /\ listener.pc = "read"
    /\ m.MessageType = "move" /\ m.Identifier # Prey
    /\ PlayerLocs' = MoveNLLocs(PlayerLocs, m.Identifier, m.Move)
    /\ listener' = IF MoveNLError(m.Move) = "nil"
                   THEN [listener EXCEPT !.pc = "sendAck",
                                         !.i = (listener.i + 1) % 2, !.msg = m]
                   ELSE Dispatched(m, MoveNLError(m.Move))
    /\ UNCHANGED <<mesh, heart, ServerConn, Config, HeartAttack, server, writing,
                   OtherNodes, MessagesToSend, NodesToDelete, NodesToAdd,
                   ACKSReceived, sequenceNumber, MoveCommits, tracker, sender,
                   roster, PlayerScores>>

\* n.MessagesToSend <- &PendingMessage{Recipient: identifier, ...} (waiting
\* there while the channel is full), then return nil
ListenerSendACK ==
    /\ Running /\ listener.pc = "sendAck"
    /\ Len(MessagesToSend) < MessagesToSendCap
    /\ MessagesToSend' = Append(MessagesToSend,
                                SendACK(listener.msg.Identifier, listener.msg.Seq))
    /\ listener' = [listener EXCEPT !.pc = "read", !.err = "nil"]
    /\ UNCHANGED <<mesh, heart, ServerConn, Config, HeartAttack, server, writing,
                   OtherNodes, NodesToDelete, NodesToAdd, ACKSReceived,
                   sequenceNumber, MoveCommits, PlayerLocs, tracker, sender,
                   roster, PlayerScores>>

(***************************************************************************)
(* The inbound listener: a game state replaces the local one, and a claim  *)
(* of having captured the prey is validated (HandleReceivedGameState,      *)
(* HandleCapturedPreyRequest).                                             *)
(***************************************************************************)
GameStateMessage(id, gameState) ==
    [NoMessage EXCEPT !.MessageType = "gameState", !.Identifier = id,
                      !.GameState = gameState]
CapturedMessage(id, move, score) ==
    [NoMessage EXCEPT !.MessageType = "captured", !.Identifier = id,
                      !.Move = move, !.Score = score]

\* n.PlayerNode.GameState = *gameState (a nil game state is dereferenced)
HandleReceivedGameState(m) ==
    /\ Running /\ listener.pc = "read"
    /\ m.MessageType = "gameState"
    /\ PlayerLocs' = IF m.GameState = Nil THEN PlayerLocs ELSE m.GameState.PlayerLocs
    /\ PlayerScores' = IF m.GameState = Nil THEN PlayerScores
                       ELSE m.GameState.PlayerScores
    /\ listener' = Dispatched(m, IF m.GameState = Nil THEN "panic" ELSE "nil")
    /\ UNCHANGED <<mesh, heart, ServerConn, Config, HeartAttack, server, writing,
                   OtherNodes, MessagesToSend, NodesToDelete, NodesToAdd,
                   ACKSReceived, sequenceNumber, MoveCommits, tracker, sender,
                   roster>>

\* CheckGotPrey: nil, or the error
CheckGotPrey(locs, move) ==
    IF move.X = locs[Prey].X /\ move.Y = locs[Prey].Y
    THEN "nil" ELSE "InvalidPreyCaptureError"

\* HandleCapturedPreyRequest: the error returned (a nil move is dereferenced);
\* the score read is compared with itself plus one
CapturedError(locs, scores, identifier, move, score) ==
    IF move = Nil THEN "panic"
    ELSE IF CheckGotPrey(locs, move) # "nil" THEN CheckGotPrey(locs, move)
    ELSE IF CheckMoveIsValid(move) # "nil" THEN CheckMoveIsValid(move)
    ELSE LET playerScore == scores[identifier] IN
         IF playerScore # playerScore + 1 THEN "InvalidScoreUpdateError" ELSE "nil"

\* the score of the claimant raised whatever the checks say
CapturedScoresRaised(locs, scores, identifier, move, score) ==
    [scores EXCEPT ![identifier] = scores[identifier] + 1]

\* HandleCapturedPreyRequest: the scores afterwards; playerScore = playerScore
\* + 1 is an assignment to the local copy and comes after the return
CapturedScores(locs, scores, identifier, move, score) == scores

HandleCapturedPreyRequest(m) ==
    /\ Running /\ listener.pc = "read"
    /\ m.MessageType = "captured"
    /\ PlayerScores' = CapturedScores(PlayerLocs, PlayerScores, m.Identifier,
                                      m.Move, m.Score)
    /\ listener' = Dispatched(m, CapturedError(PlayerLocs, PlayerScores,
                                               m.Identifier, m.Move, m.Score))
    /\ UNCHANGED <<mesh, heart, ServerConn, Config, HeartAttack, server, writing,
                   OtherNodes, MessagesToSend, NodesToDelete, NodesToAdd,
                   ACKSReceived, sequenceNumber, MoveCommits, PlayerLocs,
                   tracker, sender, roster>>

\* the game states that arrive: the prey on its starting cell, on another
\* open cell or on a wall, and peer 1 with no capture or with one
GameStateInputs ==
    {[PlayerLocs |-> [i \in AllIds |-> IF i = Prey THEN c ELSE Origin],
      PlayerScores |-> [i \in AllIds |-> IF i = "1" THEN sc ELSE 0]] :
        c \in {Origin, [X |-> 11, Y |-> 1], [X |-> 11, Y |-> 11]}, sc \in {0, 1}}

\* the datagrams of the capture protocol
CaptureMessages ==
    {GameStateMessage("2", gs) : gs \in GameStateInputs \cup {Nil}}
    \cup {CapturedMessage("1", mv, sc) :
            mv \in {Origin, [X |-> 11, Y |-> 1], [X |-> 11, Y |-> 11], Nil},
            sc \in 0..2}

NextCapture ==
    \/ \E m \in CaptureMessages : HandleReceivedGameState(m)
    \/ \E m \in CaptureMessages : HandleCapturedPreyRequest(m)

SpecCapture == Init /\ [][NextCapture]_vars

(***************************************************************************)
(* SendMoveCommitToNodes, called by the gameplay logic: one send on        *)
(* MessagesToSend, addressed to every node.                                *)
(***************************************************************************)
SendMoveCommitToNodes(moveCommit) ==
    /\ Running
    /\ Len(MessagesToSend) < MessagesToSendCap
    /\ MessagesToSend' = Append(MessagesToSend,
           [Recipient |-> "all",
            Message |-> [MoveCommitMessage(Self, moveCommit) EXCEPT !.Addr = SelfAddr]])
    /\ UNCHANGED <<mesh, heart, ServerConn, Config, HeartAttack, server, writing,
                   OtherNodes, NodesToDelete, NodesToAdd, ACKSReceived,
                   sequenceNumber, MoveCommits, PlayerLocs, listener, tracker,
                   sender, roster, PlayerScores>>

(***************************************************************************)
(* MovesToSend is an unbuffered channel: a send completes only together    *)
(* with a receive.  The senders are the SendMoveToNodes calls and the      *)
(* tracker's own retry; the only receiver is the tracker's select.         *)
(***************************************************************************)
MoveSenders == Submitters \cup {"tracker"}

\* s is at its send on MovesToSend
SendingMove(s) ==
    IF s \in Submitters THEN sender[s].pc = "sendMove" ELSE tracker.pc = "resend"

\* the value s sends
MoveSent(s) == IF s \in Submitters THEN sender[s].pending ELSE tracker.moveToSend

\* a goroutine is at a receive on MovesToSend
ReceivingMove == tracker.pc = "select"

MovesToSendHandoff(s) ==
    /\ Running
    /\ SendingMove(s)
    /\ ReceivingMove
    /\ tracker' = [tracker EXCEPT !.pc = "lookup", !.moveToSend = MoveSent(s)]
    /\ sender' = IF s \in Submitters THEN [sender EXCEPT ![s] = Idle] ELSE sender
    /\ UNCHANGED <<mesh, heart, ServerConn, Config, HeartAttack, server, writing,
                   roster, PlayerScores,
                   OtherNodes, MessagesToSend, NodesToDelete, NodesToAdd,
                   ACKSReceived, sequenceNumber, MoveCommits, PlayerLocs, listener>>

(***************************************************************************)
(* The quorum tracker (ManageAcks).                                        *)
(***************************************************************************)
Waiting == [pc |-> "select", moveToSend |-> NoMove, values |-> <<>>,
            addresses |-> {}, visited |-> {}]

\* if values, ok := n.ACKSReceived[moveToSend.Seq]; ok
TrackerLookup ==
    /\ Running /\ tracker.pc = "lookup"
    /\ tracker' = IF tracker.moveToSend.Seq \in DOMAIN ACKSReceived
                  THEN [tracker EXCEPT !.pc = "compare",
                                       !.values = ACKSReceived[tracker.moveToSend.Seq]]
                  ELSE Waiting
    /\ UNCHANGED <<mesh, heart, ServerConn, Config, HeartAttack, server, writing,
                   roster, PlayerScores,
                   OtherNodes, MessagesToSend, NodesToDelete, NodesToAdd,
                   ACKSReceived, sequenceNumber, MoveCommits, PlayerLocs,
                   listener, sender>>

\* the comparison with >= for >
QuorumMetOrEqual(values, nodes) == Len(values) >= Cardinality(DOMAIN nodes)

\* len(values) > len(n.OtherNodes)
QuorumMet(values, nodes) == Len(values) > Cardinality(DOMAIN nodes)

\* moveToSend.Rejected < REJECTION_MAX
MayRetry(moveToSend) == moveToSend.Rejected < REJECTION_MAX

\* quorum: the move is applied and the grace sleep starts
TrackerCommit ==
    /\ Running /\ tracker.pc = "compare"
    /\ QuorumMet(tracker.values, OtherNodes)
    /\ PlayerLocs' = MapPut(PlayerLocs, Self, tracker.moveToSend.Coord)
    /\ tracker' = [tracker EXCEPT !.pc = "grace"]
    /\ UNCHANGED <<mesh, heart, ServerConn, Config, HeartAttack, server, writing,
                   roster, PlayerScores,
                   OtherNodes, MessagesToSend, NodesToDelete, NodesToAdd,
                   ACKSReceived, sequenceNumber, MoveCommits, listener, sender>>

\* no quorum.  Retries left: Rejected++, the backoff sleep, then the re-send
\* on MovesToSend.  No retries left: the ledger entry is deleted
TrackerNoQuorum ==
    /\ Running /\ tracker.pc = "compare"
    /\ ~QuorumMet(tracker.values, OtherNodes)
    /\ IF MayRetry(tracker.moveToSend)
       THEN /\ tracker' = [tracker EXCEPT !.pc = "resend",
                             !.moveToSend.Rejected = tracker.moveToSend.Rejected + 1]
            /\ ACKSReceived' = ACKSReceived
       ELSE /\ tracker' = Waiting
            /\ ACKSReceived' = MapDelete(ACKSReceived, tracker.moveToSend.Seq)
    /\ UNCHANGED <<mesh, heart, ServerConn, Config, HeartAttack, server, writing,
                   roster, PlayerScores,
                   OtherNodes, MessagesToSend, NodesToDelete, NodesToAdd,
                   sequenceNumber, MoveCommits, PlayerLocs, listener, sender>>

\* the ack slice of a sequence number; nil (empty) when there is no entry
AcksOf(acks, seq) == IF seq \in DOMAIN acks THEN acks[seq] ELSE <<>>

\* after the grace sleep the slice is read again and made a set of addresses
TrackerGraceOver ==
    /\ Running /\ tracker.pc = "grace"
    /\ tracker' = [tracker EXCEPT !.pc = "evict", !.visited = {},
                      !.addresses = Elems(AcksOf(ACKSReceived, tracker.moveToSend.Seq))]
    /\ UNCHANGED <<mesh, heart, ServerConn, Config, HeartAttack, server, writing,
                   roster, PlayerScores,
                   OtherNodes, MessagesToSend, NodesToDelete, NodesToAdd,
                   ACKSReceived, sequenceNumber, MoveCommits, PlayerLocs,
                   listener, sender>>

\* one iteration of the range over OtherNodes: a key that is no recorded
\* address is sent on NodesToDelete (waiting there while the channel is full)
TrackerEvict(addr) ==
    /\ Running /\ tracker.pc = "evict"
    /\ addr \in DOMAIN OtherNodes \ tracker.visited
    /\ IF addr \notin tracker.addresses
       THEN /\ Len(NodesToDelete) < NodesToDeleteCap
            /\ NodesToDelete' = Append(NodesToDelete, addr)
       ELSE NodesToDelete' = NodesToDelete
    /\ tracker' = [tracker EXCEPT !.visited = tracker.visited \cup {addr}]
    /\ UNCHANGED <<mesh, heart, ServerConn, Config, HeartAttack, server, writing,
                   roster, PlayerScores,
                   OtherNodes, MessagesToSend, NodesToAdd, ACKSReceived,
                   sequenceNumber, MoveCommits, PlayerLocs, listener, sender>>

\* the range is over: delete(n.ACKSReceived, moveToSend.Seq)
TrackerCleanup ==
    /\ Running /\ tracker.pc = "evict"
    /\ DOMAIN OtherNodes \ tracker.visited = {}
    /\ ACKSReceived' = MapDelete(ACKSReceived, tracker.moveToSend.Seq)
    /\ tracker' = Waiting
    /\ UNCHANGED <<mesh, heart, ServerConn, Config, HeartAttack, server, writing,
                   roster, PlayerScores,
                   OtherNodes, MessagesToSend, NodesToDelete, NodesToAdd,
                   sequenceNumber, MoveCommits, PlayerLocs, listener, sender>>

(***************************************************************************)
(* Specifications.                                                         *)
(***************************************************************************)
\* the peer that joins the mesh in the quorum specifications; the other
\* address of Addrs belongs to a node that only ever sends acknowledgements
QuorumPeers == {"1"}

\* the datagrams of the quorum protocol: acks for the sequence numbers that
\* are assigned, which arrive before, while and after their move is pending
QuorumMessages ==
    {AckMessage(a, q) : a \in Addrs, q \in 1..MaxSeq}
    \cup {ConnectMessage(id, AddrOf[id]) : id \in QuorumPeers}

\* a connect datagram arrives while fewer than MaxPendingAdds additions wait
QuorumConnect(m) ==
    /\ Len(NodesToAdd) < MaxPendingAdds
    /\ HandleIncomingConnectionRequest(m)

\* the gameplay goroutine that submits moves in the quorum specifications
QuorumSubmitters == {"g1"}
\* the gameplay logic calls SendMoveToNodes while fewer than MaxSeq sequence
\* numbers are assigned
MoveSubmitted(g, move) ==
    /\ sequenceNumber < MaxSeq
    /\ SendMoveToNodes(g, move)

\* the steps that are reachable whether or not a ledger entry is ever created
QuorumCommon ==
    \/ \E m \in QuorumMessages : HandleReceivedAck(m)
    \/ \E m \in QuorumMessages : QuorumConnect(m)
    \/ ListenerAddNode
    \/ RosterSend
    \/ \E id \in QuorumPeers, err \in WriteResults : RosterWrite(id, err)
    \/ RosterSent
    \/ RosterAdd
    \/ \E g \in QuorumSubmitters, move \in SubmittedMoves : MoveSubmitted(g, move)
    \/ \E g \in QuorumSubmitters : SendMoveBuild(g)
    \/ \E g \in QuorumSubmitters : SendMoveEnqueue(g)
    \/ \E s \in MoveSenders : MovesToSendHandoff(s)
    \/ TrackerLookup

\* the code as it stands: nothing creates a ledger entry
Next ==
    \/ QuorumCommon
    \/ \E g \in QuorumSubmitters : SendMovePending(g, FALSE)

Spec == Init /\ [][Next]_vars

\* the code with the ledger entry of a submitted move created on submission
NextLedger ==
    \/ QuorumCommon
    \/ \E g \in QuorumSubmitters : SendMovePending(g, TRUE)
    \/ RosterDelete
    \/ TrackerCommit
    \/ TrackerNoQuorum
    \/ TrackerGraceOver
    \/ \E addr \in QuorumPeers : TrackerEvict(addr)
    \/ TrackerCleanup

SpecLedger == Init /\ [][NextLedger]_vars

\* the steps of each task, for the fairness of the scheduler; datagram
\* arrivals and calls of SendMoveToNodes are left to the environment
TrackerTask ==
    \/ \E s \in MoveSenders : MovesToSendHandoff(s)
    \/ TrackerLookup
    \/ TrackerCommit
    \/ TrackerNoQuorum
    \/ TrackerGraceOver
    \/ \E addr \in QuorumPeers : TrackerEvict(addr)
    \/ TrackerCleanup

RosterTask ==
    \/ RosterSend
    \/ \E id \in QuorumPeers, err \in WriteResults : RosterWrite(id, err)
    \/ RosterSent
    \/ RosterAdd
    \/ RosterDelete

SubmitterTask ==
    \/ \E g \in QuorumSubmitters : SendMoveBuild(g)
    \/ \E g \in QuorumSubmitters : SendMoveEnqueue(g)
    \/ \E g \in QuorumSubmitters : SendMovePending(g, TRUE)

\* every goroutine that can run is eventually run
FairSpecLedger ==
    /\ Init /\ [][NextLedger]_vars
    /\ WF_vars(TrackerTask)
    /\ WF_vars(RosterTask)
    /\ WF_vars(SubmitterTask)
    /\ WF_vars(ListenerAddNode)

(***************************************************************************)
(* The non-lockstep moves of the peers, their acks and the roster actor    *)
(* that delivers them.                                                     *)
(***************************************************************************)
\* the coordinates of the moves that arrive: an open cell, a wall, none
MoveInputs == {[X |-> 11, Y |-> 1], [X |-> 11, Y |-> 11], Nil}

\* the sequence numbers the peers give their moves
PeerSeqs == {1, 2}

\* the datagrams of the peers: their moves and their connection requests
MovesMessages ==
    {MoveMessage(id, mv, q, AddrOf[id]) : id \in PeerIds, mv \in MoveInputs,
                                          q \in PeerSeqs}
    \cup {ConnectMessage(id, AddrOf[id]) : id \in PeerIds}

\* the commit this node announces
SentCommits == {MoveCommitOf("kEve", CalculateHash(Origin, Self))}

\* a move datagram arrives while fewer than MaxPendingSends messages wait
MoveArrives(m) ==
    /\ Len(MessagesToSend) < MaxPendingSends
    /\ HandleReceivedMoveNL(m)

\* the gameplay logic announces a commit while fewer than MaxPendingSends
\* messages wait
CommitAnnounced(c) ==
    /\ Len(MessagesToSend) < MaxPendingSends
    /\ SendMoveCommitToNodes(c)

NextMoves ==
    \/ \E m \in MovesMessages : MoveArrives(m)
    \/ ListenerSendACK
    \/ \E m \in MovesMessages : QuorumConnect(m)
    \/ ListenerAddNode
    \/ \E c \in SentCommits : CommitAnnounced(c)
    \/ RosterSend
    \/ \E id \in PeerIds, err \in WriteResults : RosterWrite(id, err)
    \/ RosterSent
    \/ RosterAdd

SpecMoves == Init /\ [][NextMoves]_vars

(***************************************************************************)
(* The roster with both peers: connection requests that add a peer or      *)
(* replace its connection, and the evictions of the tracker.               *)
(***************************************************************************)
\* the datagrams: acks of one node, and connection requests of both peers,
\* peer 1 from either of two addresses
RosterMessages ==
    {AckMessage("a1", 1)}
    \cup {ConnectMessage("1", a) : a \in Addrs}
    \cup {ConnectMessage("2", "a2")}

NextRoster ==
    \/ \E m \in RosterMessages : HandleReceivedAck(m)
    \/ \E m \in RosterMessages : QuorumConnect(m)
    \/ ListenerAddNode
    \/ RosterSend
    \/ \E id \in PeerIds : RosterWrite(id, "nil")
    \/ RosterSent
    \/ RosterAdd
    \/ RosterDelete
    \/ \E g \in QuorumSubmitters, move \in SubmittedMoves : MoveSubmitted(g, move)
    \/ \E g \in QuorumSubmitters : SendMoveBuild(g)
    \/ \E g \in QuorumSubmitters : SendMoveEnqueue(g)
    \/ \E g \in QuorumSubmitters : SendMovePending(g, TRUE)
    \/ \E s \in MoveSenders : MovesToSendHandoff(s)
    \/ TrackerLookup
    \/ TrackerCommit
    \/ TrackerNoQuorum
    \/ TrackerGraceOver
    \/ \E addr \in PeerIds : TrackerEvict(addr)
    \/ TrackerCleanup

SpecRoster == Init /\ [][NextRoster]_vars

(***************************************************************************)
(* Connection requests that arrive faster than the roster actor takes the  *)
(* additions off NodesToAdd.                                               *)
(***************************************************************************)
ConnectRequests == {ConnectMessage(id, AddrOf[id]) : id \in PeerIds}

NextEnqueue ==
    \/ \E m \in ConnectRequests : HandleIncomingConnectionRequest(m)
    \/ ListenerAddNode
    \/ RosterAdd

SpecEnqueue == Init /\ [][NextEnqueue]_vars

(***************************************************************************)
(* The directory server: registration, mesh initiation, heartbeat.         *)
(***************************************************************************)
\* the session configurations a Register call can be answered with
ServerConfigs == {[Identifier |-> k, GlobalServerHB |-> 1] : k \in {1, 2}}

\* an *rpc.Client whose server is running, and one whose server has stopped
LiveConn == [live |-> TRUE]
BrokenConn == [live |-> FALSE]

\* the maps a GetNodes call can be answered with, as sets of identifiers;
\* the address of identifier id is AddrOf[id]
NodeLists == SUBSET PeerIds

\* the directory server stops: the connections made to it are broken
ServerFails ==
    /\ server.up
    /\ server' = [server EXCEPT !.up = FALSE]
    /\ ServerConn' = IF ServerConn = LiveConn THEN BrokenConn ELSE ServerConn
    /\ UNCHANGED <<mesh, heart, Config, HeartAttack, writing, OtherNodes,
                   MessagesToSend, NodesToDelete, NodesToAdd, ACKSReceived,
                   sequenceNumber, MoveCommits, PlayerLocs, listener, tracker,
                   sender, roster, PlayerScores>>

\* the directory server is started again
ServerRecovers ==
    /\ ~server.up
    /\ server' = [server EXCEPT !.up = TRUE]
    /\ UNCHANGED <<mesh, heart, ServerConn, Config, HeartAttack, writing,
                   OtherNodes, MessagesToSend, NodesToDelete, NodesToAdd,
                   ACKSReceived, sequenceNumber, MoveCommits, PlayerLocs,
                   listener, tracker, sender, roster, PlayerScores>>

\* rpc.Dial: the error returned
DialError(srv) == IF srv.up THEN "nil" ELSE "dial error"

\* a Call on the connection to the server: the error returned
CallError(conn) == IF conn = LiveConn THEN "nil" ELSE "call error"

\* ServerRegister, up to the test of n.ServerConn
ServerRegister ==
    /\ Running /\ mesh.pc = "idle"
    /\ mesh' = [mesh EXCEPT !.pc = IF ServerConn = Nil THEN "dial" ELSE "getNodes"]
    /\ UNCHANGED <<heart, ServerConn, Config, HeartAttack, server, writing,
                   OtherNodes, MessagesToSend, NodesToDelete, NodesToAdd,
                   ACKSReceived, sequenceNumber, MoveCommits, PlayerLocs,
                   listener, tracker, sender, roster, PlayerScores>>

\* DialAndRegister called by ServerRegister, its rpc.Dial: the connection is
\* stored, or the error is returned and ServerRegister exits the process
ServerRegisterDial ==
    /\ Running /\ mesh.pc = "dial"
    /\ IF DialError(server) = "nil"
       THEN ServerConn' = LiveConn /\ mesh' = [mesh EXCEPT !.pc = "register"]
       ELSE ServerConn' = ServerConn /\ mesh' = [mesh EXCEPT !.pc = "exited"]
    /\ UNCHANGED <<heart, Config, HeartAttack, server, writing, OtherNodes,
                   MessagesToSend, NodesToDelete, NodesToAdd, ACKSReceived,
                   sequenceNumber, MoveCommits, PlayerLocs, listener, tracker,
                   sender, roster, PlayerScores>>

\* DialAndRegister called by ServerRegister, its GServer.Register call: the
\* response becomes n.Config, or ServerRegister exits the process
ServerRegisterCall(response) ==
    /\ Running /\ mesh.pc = "register"
    /\ IF CallError(ServerConn) = "nil"
       THEN Config' = response /\ mesh' = [mesh EXCEPT !.pc = "getNodes"]
       ELSE Config' = Config /\ mesh' = [mesh EXCEPT !.pc = "exited"]
    /\ UNCHANGED <<heart, ServerConn, HeartAttack, server, writing, OtherNodes,
                   MessagesToSend, NodesToDelete, NodesToAdd, ACKSReceived,
                   sequenceNumber, MoveCommits, PlayerLocs, listener, tracker,
                   sender, roster, PlayerScores>>

\* GetNodes: the GServer.GetNodes call; an error is a panic
GetNodes(response) ==
    /\ Running /\ mesh.pc = "getNodes"
    /\ mesh' = IF CallError(ServerConn) = "nil"
               THEN [mesh EXCEPT !.pc = "range", !.response = response]
               ELSE [mesh EXCEPT !.pc = "panicked"]
    /\ UNCHANGED <<heart, ServerConn, Config, HeartAttack, server, writing,
                   OtherNodes, MessagesToSend, NodesToDelete, NodesToAdd,
                   ACKSReceived, sequenceNumber, MoveCommits, PlayerLocs,
                   listener, tracker, sender, roster, PlayerScores>>

\* GetNodes, one turn of the range over the response, in any order:
\* n.NodesToAdd <- &node
GetNodesAdd(id) ==
    /\ Running /\ mesh.pc = "range"
    /\ id \in mesh.response
    /\ Len(NodesToAdd) < NodesToAddCap
    /\ NodesToAdd' = Append(NodesToAdd, [Identifier |-> id, Conn |-> AddrOf[id]])
    /\ mesh' = [mesh EXCEPT !.pc = "connect", !.node = id]
    /\ UNCHANGED <<heart, ServerConn, Config, HeartAttack, server, writing,
                   OtherNodes, MessagesToSend, NodesToDelete, ACKSReceived,
                   sequenceNumber, MoveCommits, PlayerLocs, listener, tracker,
                   sender, roster, PlayerScores>>

\* InitiateConnection(nodeClient): the "connect" message is queued for "all",
\* whatever nodeClient is
InitiateConnection ==
    /\ Running /\ mesh.pc = "connect"
    /\ Len(MessagesToSend) < MessagesToSendCap
    /\ MessagesToSend' = Append(MessagesToSend,
                                [Recipient |-> "all",
                                 Message |-> ConnectMessage(Self, SelfAddr)])
    /\ mesh' = [mesh EXCEPT !.pc = "range", !.response = mesh.response \ {mesh.node},
                            !.node = ""]
    /\ UNCHANGED <<heart, ServerConn, Config, HeartAttack, server, writing,
                   OtherNodes, NodesToDelete, NodesToAdd, ACKSReceived,
                   sequenceNumber, MoveCommits, PlayerLocs, listener, tracker,
                   sender, roster, PlayerScores>>

\* GetNodes and ServerRegister return once the range is over
GetNodesReturn ==
    /\ Running /\ mesh.pc = "range"
    /\ mesh.response = {}
    /\ mesh' = [mesh EXCEPT !.pc = "done"]
    /\ UNCHANGED <<heart, ServerConn, Config, HeartAttack, server, writing,
                   OtherNodes, MessagesToSend, NodesToDelete, NodesToAdd,
                   ACKSReceived, sequenceNumber, MoveCommits, PlayerLocs,
                   listener, tracker, sender, roster, PlayerScores>>

\* the heartbeat goroutine is started on a registered node
SendHeartbeat ==
    /\ Running /\ heart.pc = "idle"
    /\ mesh.pc = "done"
    /\ heart' = [heart EXCEPT !.pc = "select"]
    /\ UNCHANGED <<mesh, ServerConn, Config, HeartAttack, server, writing,
                   OtherNodes, MessagesToSend, NodesToDelete, NodesToAdd,
                   ACKSReceived, sequenceNumber, MoveCommits, PlayerLocs,
                   listener, tracker, sender, roster, PlayerScores>>

\* a goroutine sends the stop signal on HeartAttack and waits for its receiver
StopHeartbeat ==
    /\ Running /\ HeartAttack = "open"
    /\ HeartAttack' = "offered"
    /\ UNCHANGED <<mesh, heart, ServerConn, Config, server, writing, OtherNodes,
                   MessagesToSend, NodesToDelete, NodesToAdd, ACKSReceived,
                   sequenceNumber, MoveCommits, PlayerLocs, listener, tracker,
                   sender, roster, PlayerScores>>

\* select { case <-n.HeartAttack: return; default: ... }
HeartbeatSelect ==
    /\ Running /\ heart.pc = "select"
    /\ IF HeartAttack = "offered"
       THEN HeartAttack' = "taken" /\ heart' = [heart EXCEPT !.pc = "returned"]
       ELSE HeartAttack' = HeartAttack /\ heart' = [heart EXCEPT !.pc = "call"]
    /\ UNCHANGED <<mesh, ServerConn, Config, server, writing, OtherNodes,
                   MessagesToSend, NodesToDelete, NodesToAdd, ACKSReceived,
                   sequenceNumber, MoveCommits, PlayerLocs, listener, tracker,
                   sender, roster, PlayerScores>>

\* the GServer.Heartbeat call; an error enters Reregister, at its first
\* DialAndRegister
HeartbeatCall ==
    /\ Running /\ heart.pc = "call"
    /\ heart' = IF CallError(ServerConn) = "nil"
                THEN [heart EXCEPT !.pc = "sleep"]
                ELSE [heart EXCEPT !.pc = "dial", !.inLoop = FALSE]
    /\ UNCHANGED <<mesh, ServerConn, Config, HeartAttack, server, writing,
                   OtherNodes, MessagesToSend, NodesToDelete, NodesToAdd,
                   ACKSReceived, sequenceNumber, MoveCommits, PlayerLocs,
                   listener, tracker, sender, roster, PlayerScores>>

\* where Reregister goes once a DialAndRegister has returned: the attempt made
\* before the loop is followed by the loop's test, an attempt of the loop by
\* its time.Sleep
Attempted(h, response, err) ==
    IF h.inLoop
    THEN [h EXCEPT !.pc = "pause", !.response = response, !.err = err]
    ELSE IF err # "nil"
         THEN [h EXCEPT !.pc = "dial", !.response = response, !.err = err,
                        !.inLoop = TRUE]
         ELSE [h EXCEPT !.pc = "return", !.response = response, !.err = err]

\* DialAndRegister called by Reregister, its rpc.Dial
ReregisterDial ==
    /\ Running /\ heart.pc = "dial"
    /\ IF DialError(server) = "nil"
       THEN ServerConn' = LiveConn /\ heart' = [heart EXCEPT !.pc = "register"]
       ELSE /\ ServerConn' = ServerConn
            /\ heart' = Attempted(heart, ZeroConfig, DialError(server))
    /\ UNCHANGED <<mesh, Config, HeartAttack, server, writing, OtherNodes,
                   MessagesToSend, NodesToDelete, NodesToAdd, ACKSReceived,
                   sequenceNumber, MoveCommits, PlayerLocs, listener, tracker,
                   sender, roster, PlayerScores>>

\* DialAndRegister called by Reregister, its GServer.Register call
ReregisterCall(response) ==
    /\ Running /\ heart.pc = "register"
    /\ heart' = IF CallError(ServerConn) = "nil"
                THEN Attempted(heart, response, "nil")
                ELSE Attempted(heart, ZeroConfig, CallError(ServerConn))
    /\ UNCHANGED <<mesh, ServerConn, Config, HeartAttack, server, writing,
                   OtherNodes, MessagesToSend, NodesToDelete, NodesToAdd,
                   ACKSReceived, sequenceNumber, MoveCommits, PlayerLocs,
                   listener, tracker, sender, roster, PlayerScores>>

\* the loop of Reregister left after one attempt, whatever its error
ReregisterLeavesAtOnce(err) == TRUE

\* for register_failed_err != nil
ReregisterLeaves(err) == err = "nil"

\* time.Sleep(time.Second) in the loop of Reregister, then the loop's test
ReregisterPause ==
    /\ Running /\ heart.pc = "pause"
    /\ heart' = [heart EXCEPT !.pc = IF ReregisterLeaves(heart.err)
                                     THEN "return" ELSE "dial"]
    /\ UNCHANGED <<mesh, ServerConn, Config, HeartAttack, server, writing,
                   OtherNodes, MessagesToSend, NodesToDelete, NodesToAdd,
                   ACKSReceived, sequenceNumber, MoveCommits, PlayerLocs,
                   listener, tracker, sender, roster, PlayerScores>>

\* n.Config = n.Reregister()
Reregister ==
    /\ Running /\ heart.pc = "return"
    /\ Config' = heart.response
    /\ heart' = [heart EXCEPT !.pc = "sleep"]
    /\ UNCHANGED <<mesh, ServerConn, HeartAttack, server, writing, OtherNodes,
                   MessagesToSend, NodesToDelete, NodesToAdd, ACKSReceived,
                   sequenceNumber, MoveCommits, PlayerLocs, listener, tracker,
                   sender, roster, PlayerScores>>

\* time.Sleep of the heartbeat interval, then the next turn of the loop
HeartbeatSleep ==
    /\ Running /\ heart.pc = "sleep"
    /\ heart' = [heart EXCEPT !.pc = "select"]
    /\ UNCHANGED <<mesh, ServerConn, Config, HeartAttack, server, writing,
                   OtherNodes, MessagesToSend, NodesToDelete, NodesToAdd,
                   ACKSReceived, sequenceNumber, MoveCommits, PlayerLocs,
                   listener, tracker, sender, roster, PlayerScores>>

\* ServerRegister and GetNodes, on the goroutine that calls ServerRegister
MeshTask ==
    \/ ServerRegister
    \/ ServerRegisterDial
    \/ \E response \in ServerConfigs : ServerRegisterCall(response)
    \/ \E response \in NodeLists : GetNodes(response)
    \/ \E id \in PeerIds : GetNodesAdd(id)
    \/ InitiateConnection
    \/ GetNodesReturn

\* the roster actor with the peers the directory server names
MeshRosterTask ==
    \/ RosterSend
    \/ \E id \in PeerIds, err \in WriteResults : RosterWrite(id, err)
    \/ RosterSent
    \/ RosterAdd

\* mesh initiation with the roster actor running: every goroutine goes on as
\* long as it has a step to take, and the select of the actor takes whichever
\* ready case
NextMesh == MeshTask \/ MeshRosterTask

SpecMesh ==
    /\ Init /\ [][NextMesh]_vars
    /\ WF_vars(MeshTask)
    /\ WF_vars(MeshRosterTask)

\* SendHeartbeat with Reregister
HeartTask ==
    \/ SendHeartbeat
    \/ HeartbeatSelect
    \/ HeartbeatCall
    \/ ReregisterDial
    \/ \E response \in ServerConfigs : ReregisterCall(response)
    \/ ReregisterPause
    \/ Reregister
    \/ HeartbeatSleep

\* registration with a server that names no peer, as HeartTask needs it
RegisterTask ==
    \/ ServerRegister
    \/ ServerRegisterDial
    \/ \E response \in ServerConfigs : ServerRegisterCall(response)
    \/ GetNodes({})
    \/ GetNodesReturn

\* the heartbeat of a registered node, with a directory server that stops and
\* starts at any time and a stop signal offered at any time; the goroutines
\* go on as long as they have a step to take
NextHeart ==
    \/ RegisterTask
    \/ HeartTask
    \/ StopHeartbeat
    \/ ServerFails
    \/ ServerRecovers

SpecHeart ==
    /\ Init /\ [][NextHeart]_vars
    /\ WF_vars(RegisterTask)
    /\ WF_vars(HeartTask)

(***************************************************************************)
(* The listener with every kind of datagram.                               *)
(***************************************************************************)
\* the kinds of message that RunListener hands to a handler
HandledKinds == {"gameState", "moveCommit", "move", "connect", "ack", "captured"}

\* case "connected" (do nothing) and default (a line is printed)
RunListenerIgnores(m) ==
    /\ Running /\ listener.pc = "read"
    /\ m.MessageType \notin HandledKinds
    /\ listener' = Dispatched(m, "nil")
    /\ UNCHANGED <<mesh, heart, ServerConn, Config, HeartAttack, server, writing,
                   OtherNodes, MessagesToSend, NodesToDelete, NodesToAdd,
                   ACKSReceived, sequenceNumber, MoveCommits, PlayerLocs,
                   tracker, sender, roster, PlayerScores>>

\* datagrams of the kinds no handler is called for
IgnoredMessages ==
    {[NoMessage EXCEPT !.MessageType = kind, !.Identifier = id] :
        kind \in {"connected", "hello"}, id \in PeerIds}

\* the datagrams a peer can send: those of the lockstep and capture
\* protocols, acks, moves of the peers that are refused, and the ignored kinds
ListenerMessages ==
    LockstepMessages \cup CaptureMessages \cup IgnoredMessages
    \cup {AckMessage(a, 1) : a \in Addrs}
    \cup {MoveMessage("1", mv, 1, "a1") : mv \in {[X |-> 11, Y |-> 11], Nil}}

NextListener ==
    \/ \E m \in ListenerMessages : HandleReceivedGameState(m)
    \/ \E m \in ListenerMessages : HandleReceivedMoveCommit(m)
    \/ \E m \in ListenerMessages : HandleReceivedMoveL(m)
    \/ \E m \in ListenerMessages : HandleReceivedMoveNL(m)
    \/ \E m \in ListenerMessages : HandleReceivedAck(m)
    \/ \E m \in ListenerMessages : HandleCapturedPreyRequest(m)
    \/ \E m \in ListenerMessages : RunListenerIgnores(m)

SpecListener == Init /\ [][NextListener]_vars

(***************************************************************************)
(* Writes to the game state, each taking its time: the goroutine is in     *)
(* `writing' from the start of its map assignment to its end.  No lock is  *)
(* taken around the assignments of this snapshot.                          *)
(***************************************************************************)
\* ManageAcks: the assignment to PlayerLocs[n.PlayerNode.Identifier] starts
TrackerWriteStarts ==
    /\ Running /\ tracker.pc = "compare"
    /\ QuorumMet(tracker.values, OtherNodes)
    /\ "tracker" \notin writing
    /\ writing' = writing \cup {"tracker"}
    /\ UNCHANGED <<mesh, heart, ServerConn, Config, HeartAttack, server,
                   OtherNodes, MessagesToSend, NodesToDelete, NodesToAdd,
                   ACKSReceived, sequenceNumber, MoveCommits, PlayerLocs,
                   listener, tracker, sender, roster, PlayerScores>>

\* ManageAcks: the assignment is done and the grace sleep starts
TrackerWriteEnds ==
    /\ Running /\ tracker.pc = "compare"
    /\ "tracker" \in writing
    /\ PlayerLocs' = MapPut(PlayerLocs, Self, tracker.moveToSend.Coord)
    /\ tracker' = [tracker EXCEPT !.pc = "grace"]
    /\ writing' = writing \ {"tracker"}
    /\ UNCHANGED <<mesh, heart, ServerConn, Config, HeartAttack, server,
                   OtherNodes, MessagesToSend, NodesToDelete, NodesToAdd,
                   ACKSReceived, sequenceNumber, MoveCommits, listener, sender,
                   roster, PlayerScores>>

\* HandleReceivedMoveNL with a valid move: the assignment to
\* PlayerLocs[identifier] starts
MoveNLWriteStarts(m) ==
    /\ Running /\ listener.pc = "read"
    /\ m.MessageType = "move" /\ m.Identifier # Prey
    /\ MoveNLError(m.Move) = "nil"
    /\ listener' = [listener EXCEPT !.pc = "store", !.i = (listener.i + 1) % 2,
                                    !.msg = m]
    /\ writing' = writing \cup {"listener"}
    /\ UNCHANGED <<mesh, heart, ServerConn, Config, HeartAttack, server,
                   OtherNodes, MessagesToSend, NodesToDelete, NodesToAdd,
                   ACKSReceived, sequenceNumber, MoveCommits, PlayerLocs,
                   tracker, sender, roster, PlayerScores>>

\* HandleReceivedMoveNL: the assignment is done and SendACK is called
MoveNLWriteEnds ==
    /\ Running /\ listener.pc = "store"
    /\ PlayerLocs' = MoveNLLocs(PlayerLocs, listener.msg.Identifier,
                                listener.msg.Move)
    /\ listener' = [listener EXCEPT !.pc = "sendAck"]
    /\ writing' = writing \ {"listener"}
    /\ UNCHANGED <<mesh, heart, ServerConn, Config, HeartAttack, server,
                   OtherNodes, MessagesToSend, NodesToDelete, NodesToAdd,
                   ACKSReceived, sequenceNumber, MoveCommits, tracker, sender,
                   roster, PlayerScores>>

\* the datagrams: a valid move of a peer, and the acks of the submitted move
GameStateMessages ==
    {MoveMessage("1", [X |-> 1, Y |-> 11], q, "a1") : q \in PeerSeqs}
    \cup {AckMessage(a, q) : a \in Addrs, q \in 1..MaxSeq}

\* a move datagram arrives while fewer than MaxPendingSends messages wait
MoveArrivesSlowly(m) ==
    /\ Len(MessagesToSend) < MaxPendingSends
    /\ MoveNLWriteStarts(m)

\* a submitted move with its ledger entry and its acks, the tracker that
\* applies it, and the listener that applies the moves of a peer
NextGameState ==
    \/ \E g \in QuorumSubmitters, move \in SubmittedMoves : MoveSubmitted(g, move)
    \/ \E g \in QuorumSubmitters : SendMoveBuild(g)
    \/ \E g \in QuorumSubmitters : SendMoveEnqueue(g)
    \/ \E g \in QuorumSubmitters : SendMovePending(g, TRUE)
    \/ \E s \in MoveSenders : MovesToSendHandoff(s)
    \/ TrackerLookup
    \/ TrackerWriteStarts
    \/ TrackerWriteEnds
    \/ TrackerNoQuorum
    \/ TrackerGraceOver
    \/ TrackerCleanup
    \/ \E m \in GameStateMessages : HandleReceivedAck(m)
    \/ \E m \in GameStateMessages : MoveArrivesSlowly(m)
    \/ MoveNLWriteEnds
    \/ ListenerSendACK
    \/ RosterSend
    \/ RosterSent

SpecGameState == Init /\ [][NextGameState]_vars

(***************************************************************************)
(* SendMoveToNodes called by two goroutines of the gameplay logic.         *)
(***************************************************************************)
\* the calls of SendMoveToNodes that are made
MaxCalls == 2

\* the gameplay logic calls SendMoveToNodes, with a move or with nil, while
\* fewer than MaxCalls sequence numbers are assigned
MoveOrNilSubmitted(g, move) ==
    /\ sequenceNumber < MaxCalls
    /\ SendMoveToNodes(g, move)

NextSequence ==
    \/ \E g \in Submitters, move \in SubmittedMoves \cup {Nil} :
           MoveOrNilSubmitted(g, move)
    \/ \E g \in Submitters : SendMoveReturns(g)
    \/ \E g \in Submitters : SendMoveBuild(g)
    \/ \E g \in Submitters : SendMoveEnqueue(g)
    \/ \E g \in Submitters : SendMovePending(g, FALSE)
    \/ \E s \in MoveSenders : MovesToSendHandoff(s)
    \/ TrackerLookup

SpecSequence == Init /\ [][NextSequence]_vars

(***************************************************************************)
(* Properties.                                                             *)
(***************************************************************************)
\* the step is the listener's dispatch of a message of the given kind
Handles(kind) == listener'.i # listener.i /\ listener'.msg.MessageType = kind

\* the step is the tracker's evaluation applying its move
Applies == tracker.pc = "compare" /\ tracker'.pc = "grace"

\* C1: this node's own location is written only by an evaluation of the
\* tracker in which the acks recorded for the move's sequence number are
\* strictly more than the peers of the roster, and it is then set to the
\* move's coordinate; with as many acks as peers, or fewer, nothing is applied.
C1_AppliedOnlyAboveRosterSize ==
    [][(Applies \/ PlayerLocs'[Self] # PlayerLocs[Self]) =>
          /\ Applies
          /\ Len(AcksOf(ACKSReceived, tracker.moveToSend.Seq))
               > Cardinality(DOMAIN OtherNodes)
          /\ PlayerLocs'[Self] = tracker.moveToSend.Coord]_vars

C1_Witness ==
    /\ tracker.pc = "grace"
    /\ OtherNodes # <<>>
    /\ PlayerLocs[Self] = tracker.moveToSend.Coord
    /\ PlayerLocs[Self] # Origin

\* C2: a move is applied only when strictly more distinct addresses than
\* the roster has peers are recorded for its sequence number.
C2_DistinctAcksOnly ==
    [][Applies =>
          Cardinality(Elems(AcksOf(ACKSReceived, tracker.moveToSend.Seq)))
            > Cardinality(DOMAIN OtherNodes)]_vars

\* C3: while the PendingMoveUpdates of a submitted move is queued (its
\* SendMoveToNodes call is at the send on MovesToSend), the ledger holds an
\* entry for its sequence number.
C3_EntryExistsOnSubmission ==
    \A g \in Submitters :
        sender[g].pc = "sendMove" => sender[g].pending.Seq \in DOMAIN ACKSReceived

\* C4: a move whose evaluation found no quorum is evaluated again until it
\* is applied or, with its retries used up, abandoned: the ledger entry of
\* its sequence number is eventually removed.
C4_RejectedMoveEventuallyAbandoned ==
    \A q \in 1..MaxSeq :
        (tracker.pc = "resend" /\ tracker.moveToSend.Seq = q)
            ~> (q \notin DOMAIN ACKSReceived)

\* C5: the tracker, once it has taken a move from MovesToSend, eventually
\* finishes with it (applied or abandoned) and is back at its select; it
\* never stays for ever at the re-send onto MovesToSend.
C5_TrackerNeverBlocksForever ==
    (tracker.pc # "select") ~> (tracker.pc = "select")

\* C6: an ack whose sequence number has no ledger entry returns the
\* unknown-sequence error and leaves the ledger as it was.
C6_UnknownSequenceLeavesLedger ==
    [][(Handles("ack") /\ listener'.msg.Seq \notin DOMAIN ACKSReceived) =>
          /\ listener'.err = "UnknownSequenceError"
          /\ ACKSReceived' = ACKSReceived]_vars

\* an ack for sequence number 1 is refused after the move with that number
\* was applied and its entry removed
C6_Witness ==
    /\ listener.msg.MessageType = "ack"
    /\ listener.msg.Seq = 1
    /\ listener.err = "UnknownSequenceError"
    /\ PlayerLocs[Self] # Origin
    /\ tracker.pc = "select"
    /\ 1 \notin DOMAIN ACKSReceived

\* the step is the listener's dispatch of a move of the prey
HandlesPreyMove ==
    /\ listener.pc = "read"
    /\ Handles("move")
    /\ listener'.msg.Identifier = Prey

\* the stored commitment of the prey is the one of coordinate c
CommittedTo(c) ==
    /\ Prey \in DOMAIN MoveCommits
    /\ MoveCommits[Prey] = HexEncode(CalculateHash(c, Prey))

\* C7: a move of the prey that matches the stored commitment and that the
\* grid accepts returns no error and becomes the prey's location.
C7_LockstepSuccess ==
    [][(/\ HandlesPreyMove
        /\ listener'.msg.Move # Nil
        /\ CommittedTo(listener'.msg.Move)
        /\ IsValidMove(listener'.msg.Move)) =>
          /\ listener'.err = "nil"
          /\ PlayerLocs'[Prey] = listener'.msg.Move]_vars

C7_Witness ==
    /\ listener.msg.MessageType = "move"
    /\ listener.msg.Identifier = Prey
    /\ listener.err = "nil"
    /\ listener.msg.Move # Origin
    /\ PlayerLocs[Prey] = listener.msg.Move

\* C8: a move of the prey with no stored commitment, or with a stored
\* commitment made for another coordinate, returns the invalid-move error
\* and leaves every location as it was.
C8_LockstepRejection ==
    [][(/\ HandlesPreyMove
        /\ listener'.msg.Move # Nil
        /\ \/ Prey \notin DOMAIN MoveCommits
           \/ \E c \in Coords \ {listener'.msg.Move} : CommittedTo(c)) =>
          /\ listener'.err = "InvalidMoveError"
          /\ PlayerLocs' = PlayerLocs]_vars

\* C9: after a move of the prey was handled, whatever the outcome, no
\* commitment is stored for the prey; and a move of the prey that finds no
\* commitment stored is not applied.
C9_CommitmentIsOneShot ==
    [][HandlesPreyMove =>
          /\ Prey \notin DOMAIN MoveCommits'
          /\ Prey \notin DOMAIN MoveCommits =>
                (listener'.err # "nil" /\ PlayerLocs' = PlayerLocs)]_vars

\* the coordinate applied by a first reveal is refused at a second one
C9_Witness ==
    /\ listener.msg.MessageType = "move"
    /\ listener.msg.Identifier = Prey
    /\ listener.err = "InvalidMoveError"
    /\ listener.msg.Move # Origin
    /\ PlayerLocs[Prey] = listener.msg.Move
    /\ Prey \notin DOMAIN MoveCommits

\* C10: an authentic move commit for an identifier that has a commitment
\* stored leaves the commitment store as it was.
C10_FirstCommitmentWins ==
    [][(/\ Handles("moveCommit")
        /\ listener'.msg.Identifier \in DOMAIN MoveCommits) =>
          MoveCommits' = MoveCommits]_vars

\* an authentic commit arrived for the prey and another one is stored
C10_Witness ==
    /\ listener.msg.MessageType = "moveCommit"
    /\ listener.msg.Identifier = Prey
    /\ listener.err = "nil"
    /\ Prey \in DOMAIN MoveCommits
    /\ MoveCommits[Prey] # HexEncode(listener.msg.MoveCommit.MoveHash)

\* C11: a move commit that fails the authenticity check returns the
\* incorrect-player error and leaves the commitment store as it was, whether
\* or not a commitment is stored for its identifier.
C11_UnauthenticCommitStoresNothing ==
    [][(/\ Handles("moveCommit")
        /\ listener'.msg.MoveCommit # Nil
        /\ ~CheckAuthenticityOfMoveCommit(listener'.msg.MoveCommit)) =>
          /\ listener'.err = "IncorrectPlayerError"
          /\ MoveCommits' = MoveCommits]_vars

\* a forged commit was refused for the prey while a commitment of the prey
\* is stored
C11_Witness ==
    /\ listener.msg.MessageType = "moveCommit"
    /\ listener.msg.MoveCommit \in ForgedCommits
    /\ listener.err = "IncorrectPlayerError"
    /\ listener.msg.Identifier = Prey
    /\ Prey \in DOMAIN MoveCommits

\* the step is the listener's dispatch of a move of a player other than the prey
HandlesPeerMove ==
    /\ listener.pc = "read"
    /\ Handles("move")
    /\ listener'.msg.Identifier # Prey

\* the acks among the pending messages
PendingAcks(q) == SelectSeq(q, LAMBDA pm : pm.Message.MessageType = "ack")

HandlesCapture ==
    /\ listener.pc = "read"
    /\ Handles("captured")
    /\ listener'.msg.Move # Nil

\* the claim of the dispatched message names the prey's cell
AtPrey == listener'.msg.Move = PlayerLocs[Prey]

\* the claimed score is the claimant's recorded score plus one
ScoreIsNext == listener'.msg.Score = PlayerScores[listener'.msg.Identifier] + 1

\* C13: a capture claim at the prey's cell, on an open cell, with the
\* claimant's recorded score plus one returns no error and raises the
\* claimant's recorded score by exactly one.
C13_CaptureSuccess ==
    [][(HandlesCapture /\ AtPrey /\ IsValidMove(listener'.msg.Move)
          /\ ScoreIsNext) =>
          /\ listener'.err = "nil"
          /\ PlayerScores' =
               [PlayerScores EXCEPT ![listener'.msg.Identifier] =
                                       PlayerScores[listener'.msg.Identifier] + 1]]_vars

Servicing == roster.pc = "write" \/ roster'.pc = "write"

\* C15: while the roster actor services a PendingMessage the roster stays as
\* it is; each write goes to the connection of one more peer of the roster;
\* and when the service ends the payload was written to every peer of the
\* roster if the recipient is "all", to the named peer alone if it is in the
\* roster, and to nobody otherwise, whether or not a write failed.
C15_RosterSend ==
    [][/\ Servicing => OtherNodes' = OtherNodes
       /\ (roster.pc = "select" /\ roster'.pc = "write") =>
            /\ roster'.toSend = Head(MessagesToSend)
            /\ roster'.written = <<>>
       /\ (roster.pc = "write" /\ roster'.pc = "write" /\ roster' # roster) =>
            /\ roster'.toSend = roster.toSend
            /\ \E id \in DOMAIN OtherNodes \ DOMAIN roster.written :
                 /\ DOMAIN roster'.written = DOMAIN roster.written \cup {id}
                 /\ roster'.written[id].Conn = OtherNodes[id]
                 /\ \A o \in DOMAIN roster.written :
                      roster'.written[o] = roster.written[o]
       /\ (roster.pc = "write" /\ roster'.pc = "select") =>
            DOMAIN roster.written =
               IF roster.toSend.Recipient = "all" THEN DOMAIN OtherNodes
               ELSE {roster.toSend.Recipient} \cap DOMAIN OtherNodes]_vars

\* a payload for "all" went to both peers of the roster although the writes
\* failed
C15_Witness ==
    /\ roster.pc = "write"
    /\ roster.toSend.Recipient = "all"
    /\ DOMAIN OtherNodes = PeerIds
    /\ DOMAIN roster.written = PeerIds
    /\ \A id \in PeerIds : /\ roster.written[id].Conn = OtherNodes[id]
                           /\ roster.written[id].Err = "write error"

\* the step takes the oldest pending addition / removal off its channel
TakesAdd == Len(NodesToAdd') < Len(NodesToAdd)
TakesDelete == Len(NodesToDelete') < Len(NodesToDelete)

\* C16: servicing an addition makes the roster map the added identifier to
\* the added connection, whatever it mapped to before, and servicing a
\* removal makes the removed identifier absent; the entry of every other
\* identifier is as it was.
C16_AddRemoveOnlyNamedEntry ==
    [][/\ TakesAdd =>
            LET toAdd == Head(NodesToAdd) IN
            /\ DOMAIN OtherNodes' = DOMAIN OtherNodes \cup {toAdd.Identifier}
            /\ OtherNodes'[toAdd.Identifier] = toAdd.Conn
            /\ \A id \in DOMAIN OtherNodes \ {toAdd.Identifier} :
                 OtherNodes'[id] = OtherNodes[id]
       /\ TakesDelete =>
            LET toDelete == Head(NodesToDelete) IN
            /\ DOMAIN OtherNodes' = DOMAIN OtherNodes \ {toDelete}
            /\ \A id \in DOMAIN OtherNodes \ {toDelete} :
                 OtherNodes'[id] = OtherNodes[id]]_vars

\* the request of peer 1 from its second address was serviced, and the
\* eviction of peer 2 was serviced while peer 1 stayed
C16_Witness ==
    /\ listener.pc = "read"
    /\ listener.msg = ConnectMessage("1", "a2")
    /\ NodesToAdd = <<>>
    /\ tracker.pc = "evict"
    /\ "2" \in tracker.visited
    /\ NodesToDelete = <<>>
    /\ DOMAIN OtherNodes = {"1"}
    /\ OtherNodes["1"] = "a2"

\* C17: the roster changes only in a step of the roster actor at its select,
\* never between the writes of a fan-out, and each such step takes exactly
\* one pending addition or removal and applies it; an addition or removal
\* leaves its channel only by being applied, in the order it was enqueued;
\* and a step takes at most one of a pending message, addition and removal.
C17_RosterOperationsAppliedOnce ==
    [][/\ OtherNodes' # OtherNodes =>
            /\ roster.pc = "select" /\ roster'.pc = "select"
            /\ TakesAdd \/ TakesDelete
       /\ TakesAdd =>
            /\ roster.pc = "select"
            /\ NodesToAdd' = Tail(NodesToAdd)
            /\ Head(NodesToAdd).Identifier \in DOMAIN OtherNodes'
            /\ OtherNodes'[Head(NodesToAdd).Identifier] = Head(NodesToAdd).Conn
            /\ NodesToDelete' = NodesToDelete /\ MessagesToSend' = MessagesToSend
       /\ TakesDelete =>
            /\ roster.pc = "select"
            /\ NodesToDelete' = Tail(NodesToDelete)
            /\ Head(NodesToDelete) \notin DOMAIN OtherNodes'
            /\ NodesToAdd' = NodesToAdd /\ MessagesToSend' = MessagesToSend
       /\ Len(MessagesToSend') < Len(MessagesToSend) =>
            /\ roster.pc = "select" /\ roster'.pc = "write"
            /\ MessagesToSend' = Tail(MessagesToSend)
            /\ OtherNodes' = OtherNodes
       /\ Len(NodesToAdd') > Len(NodesToAdd) =>
            SubSeq(NodesToAdd', 1, Len(NodesToAdd)) = NodesToAdd
       /\ Len(NodesToDelete') > Len(NodesToDelete) =>
            SubSeq(NodesToDelete', 1, Len(NodesToDelete)) = NodesToDelete]_vars

\* between two writes of a fan-out to both peers, an addition and a removal
\* are pending
C17_Witness ==
    /\ roster.pc = "write"
    /\ roster.toSend.Recipient = "all"
    /\ DOMAIN OtherNodes = PeerIds
    /\ Cardinality(DOMAIN roster.written) = 1
    /\ NodesToAdd # <<>>
    /\ NodesToDelete # <<>>

\* C18: a caller that is at its send on MessagesToSend, NodesToAdd or
\* NodesToDelete can complete it at once: the listener enqueueing an
\* addition or an ack, a SendMoveToNodes call enqueueing its message, and
\* the tracker enqueueing a removal never find their channel full.
C18_EnqueueNeverWaits ==
    /\ listener.pc = "addNode" => Len(NodesToAdd) < NodesToAddCap
    /\ listener.pc = "sendAck" => Len(MessagesToSend) < MessagesToSendCap
    /\ \A g \in Submitters :
         sender[g].pc = "enqueue" => Len(MessagesToSend) < MessagesToSendCap
    /\ (tracker.pc = "evict"
          /\ (DOMAIN OtherNodes \ tracker.visited) \ tracker.addresses # {}) =>
         Len(NodesToDelete) < NodesToDeleteCap

\* the step is one iteration of the tracker's range over the roster, for peer id
Examines(id) ==
    /\ tracker.pc = "evict" /\ tracker'.pc = "evict"
    /\ tracker'.visited = tracker.visited \cup {id}
    /\ id \notin tracker.visited

\* C19: after a move was applied and the grace interval is over, a peer of
\* the roster is enqueued for removal exactly if the address of its
\* connection is not among the acks recorded for the move's sequence number
\* when the grace interval ended (tracker.addresses); a peer that
\* acknowledged is not enqueued; and the tracker's case ends with the ledger
\* entry of the sequence number removed.
C19_EvictionOfSilentPeersOnly ==
    [][/\ \A id \in PeerIds :
            Examines(id) =>
               LET acked == OtherNodes[id] \in tracker.addresses
               IN IF acked THEN NodesToDelete' = NodesToDelete
                  ELSE NodesToDelete' = Append(NodesToDelete, id)
       /\ (tracker.pc = "evict" /\ tracker'.pc = "select") =>
            tracker.moveToSend.Seq \notin DOMAIN ACKSReceived']_vars

\* a sequence number of the ledger belongs to a PendingMoveUpdates that is
\* queued (its SendMoveToNodes call is at the send on MovesToSend) or that
\* the tracker holds
HasPending(q) ==
    \/ \E g \in Submitters : sender[g].pc = "sendMove" /\ sender[g].pending.Seq = q
    \/ tracker.pc # "select" /\ tracker.moveToSend.Seq = q

ConnectWritten(id) ==
    /\ roster.pc = "write"
    /\ roster.toSend.Message.MessageType = "connect"
    /\ id \in DOMAIN roster.written

\* GetNodes has queued the addition of peer id and is at InitiateConnection
Initiates(id) == mesh.pc = "connect" /\ mesh.node = id

\* C21: every peer the directory server returns to GetNodes, once queued for
\* addition to the roster, is eventually written a "connect" message by the
\* roster actor, in whatever order the actor takes its queues.
C21_ReturnedPeerIsWrittenConnect ==
    \A id \in PeerIds : Initiates(id) ~> ConnectWritten(id)

\* C22: a move message that carries no move is refused with the invalid-move
\* error as a returned value: the player locations are as before and the
\* listener reads its next datagram.
C22_NilMoveIsRefused ==
    [][(Handles("move") /\ listener'.msg.Move = Nil) =>
          /\ listener'.err = "InvalidMoveError"
          /\ PlayerLocs' = PlayerLocs
          /\ listener'.pc = "read"]_vars

\* the step is the listener's dispatch of a message
Dispatches == listener'.i # listener.i

\* the errors a handler reports for a message that fails its validation
ValidationErrors ==
    {"InvalidMoveError", "IncorrectPlayerError", "UnknownSequenceError",
     "InvalidPreyCaptureError", "InvalidScoreUpdateError"}

\* C23: no message stops the listener: whatever a dispatched message makes
\* its handler report, the listener is back at reading the next datagram;
\* and a message of the "connected" kind or of an unrecognized kind changes
\* nothing but the listener's own position.
C23_ListenerSurvivesEveryMessage ==
    [][Dispatches =>
          /\ listener'.pc # "crashed"
          /\ listener'.err \in ValidationErrors => listener'.pc = "read"
          /\ listener'.msg.MessageType \notin HandledKinds =>
                /\ listener'.pc = "read"
                /\ UNCHANGED <<OtherNodes, MessagesToSend, NodesToDelete,
                               NodesToAdd, ACKSReceived, sequenceNumber,
                               MoveCommits, PlayerLocs, PlayerScores, tracker,
                               sender, roster>>]_vars

\* a stop signal waits on HeartAttack for the running heartbeat loop
StopOffered == HeartAttack = "offered" /\ heart.pc # "idle"

\* C24: once a stop signal is offered to the heartbeat loop, the loop
\* eventually returns, also when the signal comes while the directory server
\* is unreachable and the loop is inside Reregister; and a loop that has
\* returned makes no call any more.
C24_StopSignalEndsHeartbeat ==
    /\ StopOffered ~> heart.pc = "returned"
    /\ [][heart.pc = "returned" => heart' = heart]_vars

\* the heartbeat loop is inside Reregister
InReregister == heart.pc \in {"dial", "register", "pause", "return"}

\* C25: a Heartbeat call that fails leaves the node running and enters
\* Reregister; Reregister is left only after an attempt that succeeded, and
\* what it hands back, which becomes the session configuration, is the
\* response of that attempt; and if the directory server is reachable for
\* ever from some point on, a loop inside Reregister gets out of it and goes
\* on with its heartbeat.
C25_ReregisterUntilSuccess ==
    /\ [][(heart.pc = "call" /\ heart' # heart) =>
             /\ Running'
             /\ CallError(ServerConn) # "nil" => heart'.pc = "dial"]_vars
    /\ [][(InReregister /\ ~InReregister') =>
             /\ heart.err = "nil"
             /\ heart.response \in ServerConfigs
             /\ Config' = heart.response
             /\ heart'.pc = "sleep"]_vars
    /\ (<>[](server.up)) => (InReregister ~> heart.pc = "sleep")

\* Reregister has returned after attempts of its loop, the last of which
\* succeeded, and the loop is at the sleep of its heartbeat interval
C25_Witness ==
    /\ heart.pc = "sleep"
    /\ heart.inLoop
    /\ heart.err = "nil"
    /\ Config = heart.response
    /\ Config \in ServerConfigs

\* the step changes or removes an entry that the ack ledger holds
LedgerEntryWritten ==
    \E q \in DOMAIN ACKSReceived :
        q \notin DOMAIN ACKSReceived' \/ ACKSReceived'[q] # ACKSReceived[q]

\* C26: the roster map is written by the roster actor alone, in the steps
\* that service an addition or a removal, and an entry of the ack ledger is
\* written by the tracker alone: no step of another task changes either.
C26_SingleOwner ==
    [][/\ OtherNodes' # OtherNodes => (TakesAdd \/ TakesDelete)
       /\ LedgerEntryWritten => tracker' # tracker]_vars

\* C27: no two tasks are inside a write to the game state at the same time,
\* whether the write is the listener's application of a move or the
\* tracker's application of this node's own move.
C27_OneWriterAtATime == Cardinality(writing) <= 1

\* the SendMoveToNodes call of goroutine g has built its move message
Built(g) == sender[g].pc \in {"enqueue", "pending", "sendMove"}

\* C28: a SendMoveToNodes call with a move raises the counter, which makes
\* its number greater than every number assigned before; the Seq of the
\* PendingMoveUpdates it queues is the Seq of the move message it broadcast,
\* and no call of another goroutine has built its message with that Seq;
\* a call with a nil move leaves the counter and the queue of outgoing
\* messages as they are.
C28_OneSequenceNumberPerCall ==
    [][\A g \in Submitters :
          /\ (sender[g].pc = "idle" /\ sender'[g].pc = "message") =>
                sequenceNumber' > sequenceNumber
          /\ (sender[g].pc = "pending" /\ sender'[g].pc = "sendMove") =>
                /\ sender'[g].pending.Seq = sender'[g].message.Seq
                /\ \A h \in Submitters \ {g} :
                      Built(h)' => sender'[h].message.Seq # sender'[g].message.Seq
          /\ (sender[g].pc = "idle" /\ sender'[g].pc = "return") =>
                /\ sequenceNumber' = sequenceNumber
                /\ MessagesToSend' = MessagesToSend]_vars

====
